---- MODULE Spec2Model ----
(***************************************************************************)
(* A model of laundrlab_potts.py: the scraper that reads washer/dryer      *)
(* status from a status page, classifies it and appends rows to a sheet    *)
(* and to a local CSV log.                                                 *)
(*                                                                         *)
(* Text is modelled as a sequence of characters, so that the regular       *)
(* expressions and substring tests of the source are computed and not      *)
(* assumed. A character is a one-character string; a character that a      *)
(* TLA+ string cannot hold is written as its Python escape: "\\xa0" is the *)
(* no-break space U+00A0, "\\u2028" the line separator U+2028. The         *)
(* alphabet of the model is ASCII and the non-ASCII white space.           *)
(***************************************************************************)
EXTENDS Integers, Sequences, FiniteSets, TLC

VARIABLES
  cText,      \* SpecClassify: the text handed to _status_from_text
  cFrags,     \* SpecClassify: number of fragments the text was built from
  cDone,      \* SpecClassify: whether _status_from_text has returned
  cStatus,    \* SpecClassify: the status it returned
  cDetail,    \* SpecClassify: the detail it returned
  aDoc,       \* SpecAdapters: the document context handed to the adapters
  aTable,     \* SpecAdapters: what _extract_table returned, NotRun before
  aCards,     \* SpecAdapters: what _extract_cards returned, NotRun before
  target_url,   \* TARGET_URL, read from the environment at import
  sheet_url_set,\* whether SHEET_WEBAPP_URL is a non-empty string
  pc,           \* where main() stands
  attempt,      \* the retry wrapper's attempt number, from 1
  waits,        \* how many times the retry wrapper has waited wait_fixed(5)
  page,         \* the page the current attempt loaded
  ctx,          \* what _context_for_url returned: [kind, doc]
  raised_in,    \* the call of scrape() that raised in the current attempt
  last_error,   \* the exception the last failed attempt raised
  calls,        \* the adapters the current attempt has invoked, in order
  table_out,    \* what _extract_table returned in the current attempt
  cards_out,    \* what _extract_cards returned in the current attempt
  items,        \* the local variable items of scrape(), then of main()
  scrape_result,\* "pending", "returned" or "raised": how scrape() ended
  caught,       \* the exception e that main()'s except clause caught
  clock,        \* how many times _now_iso() has read the clock
  posts,        \* the batches handed to _post_to_sheet, in order
  post_returns, \* for each of them, whether _post_to_sheet returned normally
  sheet,        \* the batches the remote sheet received
  csv_calls,    \* the batches handed to _write_debug_csv, in order
  csv_file,     \* the debug CSV: [exists, lines]
  exit_error    \* the exception main() ended with, NoExc when it returned

cvars == <<cText, cFrags, cDone, cStatus, cDetail>>
avars == <<aDoc, aTable, aCards>>
config == <<target_url, sheet_url_set>>
attempt_vars == <<page, ctx, raised_in, calls, table_out, cards_out>>
retry_vars == <<attempt, waits, last_error>>
sink_vars == <<clock, posts, post_returns, sheet>>
csv_vars == <<csv_calls, csv_file>>
mvars == <<config, pc, attempt_vars, retry_vars, items, scrape_result, caught,
           sink_vars, csv_vars, exit_error>>
vars == <<cvars, avars, mvars>>

----------------------------------------------------------------------------
(* Characters *)

\* the characters Python's \s and str.strip() treat as white space: those of
\* str.isspace()
WS ==
  {" ", "\t", "\n", "\r", "\f", "\\x0b", "\\x1c", "\\x1d", "\\x1e", "\\x1f",
   "\\x85", "\\xa0", "\\u1680", "\\u2000", "\\u2001", "\\u2002", "\\u2003",
   "\\u2004", "\\u2005", "\\u2006", "\\u2007", "\\u2008", "\\u2009", "\\u200a",
   "\\u2028", "\\u2029", "\\u202f", "\\u205f", "\\u3000"}
\* the characters Python's \d matches, over the modelled alphabet
DIGITS == {"0","1","2","3","4","5","6","7","8","9"}
UpperCase == <<"A","B","C","D","E","F","G","H","I","J","K","L","M","N","O","P","Q","R","S","T","U","V","W","X","Y","Z">>
LowerCase == <<"a","b","c","d","e","f","g","h","i","j","k","l","m","n","o","p","q","r","s","t","u","v","w","x","y","z">>
\* \w of Python's re, over the modelled alphabet
WORDCHARS == DIGITS \cup {"_"} \cup {UpperCase[i] : i \in 1..Len(UpperCase)}
                    \cup {LowerCase[i] : i \in 1..Len(LowerCase)}

LowerChar(c) ==
  IF \E i \in 1..Len(UpperCase) : UpperCase[i] = c
  THEN LowerCase[CHOOSE i \in 1..Len(UpperCase) : UpperCase[i] = c]
  ELSE c

\* str.lower()
Lower(s) == [i \in 1..Len(s) |-> LowerChar(s[i])]

\* s[i:] starts with k
StartsWithAt(s, i, k) ==
  /\ i >= 1
  /\ i + Len(k) - 1 <= Len(s)
  /\ \A j \in 1..Len(k) : s[i + j - 1] = k[j]

\* k in s
Contains(s, k) == \E i \in 1..(Len(s) - Len(k) + 1) : StartsWithAt(s, i, k)

\* the length of the longest run of characters of class cls starting at s[i]
RECURSIVE Run(_, _, _)
Run(s, i, cls) ==
  IF i <= Len(s) /\ s[i] \in cls THEN 1 + Run(s, i + 1, cls) ELSE 0

Min(a, b) == IF a <= b THEN a ELSE b

----------------------------------------------------------------------------
(* _normalise *)

\* re.sub(r"\s+", " ", s) over s[lo..hi]: every maximal run of white space
\* becomes one space, which stands where the run starts. The range is halved
\* to keep the evaluation shallow on long texts.
RECURSIVE CollapseRange(_, _, _)
CollapseRange(s, lo, hi) ==
  IF lo > hi THEN <<>>
  ELSE IF lo = hi
  THEN IF s[lo] \notin WS THEN <<s[lo]>>
       ELSE IF lo = 1 THEN <<" ">>
       ELSE IF s[lo - 1] \in WS THEN <<>>
       ELSE <<" ">>
  ELSE LET mid == (lo + hi) \div 2
       IN  CollapseRange(s, lo, mid) \o CollapseRange(s, mid + 1, hi)

\* str.strip()
RECURSIVE TrailingWs(_, _)
TrailingWs(s, i) ==
  IF i >= 1 /\ s[i] \in WS THEN 1 + TrailingWs(s, i - 1) ELSE 0

Strip(s) ==
  LET lead == Run(s, 1, WS)
  IN  IF lead = Len(s) THEN <<>>
      ELSE SubSeq(s, lead + 1, Len(s) - TrailingWs(s, Len(s)))

_normalise(s) == Strip(CollapseRange(s, 1, Len(s)))

----------------------------------------------------------------------------
(* _status_from_text *)

OutOfOrderKeywords == <<<<"o","u","t"," ","o","f"," ","o","r","d","e","r">>, <<"f","a","u","l","t">>, <<"e","r","r","o","r">>, <<"d","o","w","n">>>>
AvailableKeywords == <<<<"a","v","a","i","l","a","b","l","e">>, <<"v","a","c","a","n","t">>, <<"f","r","e","e">>>>
InUseKeywords == <<<<"i","n"," ","u","s","e">>, <<"r","u","n","n","i","n","g">>, <<"b","u","s","y">>, <<"o","c","c","u","p","i","e","d">>>>

ST_OutOfOrder == <<"O","u","t"," ","o","f"," ","O","r","d","e","r">>
ST_Available == <<"A","v","a","i","l","a","b","l","e">>
ST_InUse == <<"I","n"," ","U","s","e">>
ST_Unknown == <<"U","n","k","n","o","w","n">>

\* any(k in t for k in ks)
AnyIn(ks, t) == \E n \in 1..Len(ks) : Contains(t, ks[n])

\* the alternation (?:m|min|mins|minutes), in the order the regex tries it
TimeUnits == <<<<"m">>, <<"m","i","n">>, <<"m","i","n","s">>, <<"m","i","n","u","t","e","s">>>>

\* The ways \d+\s*(?:m|min|mins|minutes) can match at position i: nd digits,
\* nw white-space characters, alternative a.
TimeMatches(t, i) ==
  { m \in (1..Run(t, i, DIGITS)) \X (0..Len(t)) \X (1..Len(TimeUnits)) :
      /\ m[2] <= Run(t, i + m[1], WS)
      /\ StartsWithAt(t, i + m[1] + m[2], TimeUnits[m[3]]) }

\* The match the backtracking engine finds first at i: the quantifiers are
\* greedy (most digits, then most white space), the alternation is ordered.
TimeMatchAt(t, i) ==
  LET ms == TimeMatches(t, i)
  IN  CHOOSE m \in ms : \A o \in ms :
        \/ m[1] > o[1]
        \/ m[1] = o[1] /\ m[2] > o[2]
        \/ m[1] = o[1] /\ m[2] = o[2] /\ m[3] <= o[3]

\* re.search(r"(\d+\s*(?:m|min|mins|minutes))", t).group(1), or "" when None
TimeSearch(t) ==
  LET starts == {i \in 1..Len(t) : TimeMatches(t, i) # {}}
  IN  IF starts = {} THEN <<>>
      ELSE LET i == CHOOSE x \in starts : \A y \in starts : x <= y
               m == TimeMatchAt(t, i)
           IN  SubSeq(t, i, i + m[1] + m[2] + Len(TimeUnits[m[3]]) - 1)

\* a faulty variant: the Available keywords are tested before the Out-of-Order ones
StatusWrongPriority(text) ==
  LET t == Lower(text)
  IN  [st |-> IF AnyIn(AvailableKeywords, t) THEN ST_Available
              ELSE IF AnyIn(OutOfOrderKeywords, t) THEN ST_OutOfOrder
              ELSE IF AnyIn(InUseKeywords, t) THEN ST_InUse
              ELSE ST_Unknown,
       detail |-> TimeSearch(t)]

_status_from_text(text) ==
  LET t == Lower(text)
  IN  [st |-> IF AnyIn(OutOfOrderKeywords, t) THEN ST_OutOfOrder
              ELSE IF AnyIn(AvailableKeywords, t) THEN ST_Available
              ELSE IF AnyIn(InUseKeywords, t) THEN ST_InUse
              ELSE ST_Unknown,
       detail |-> TimeSearch(t)]


----------------------------------------------------------------------------
(* _guess_type *)

TY_Dryer == <<"D","r","y","e","r">>
TY_Washer == <<"W","a","s","h","e","r">>

\* re.search(r"\bdry\b", n): "dry" with no word character on either side
StandaloneDry(n) ==
  \E i \in 1..Len(n) :
    /\ StartsWithAt(n, i, <<"d","r","y">>)
    /\ (i = 1 \/ n[i - 1] \notin WORDCHARS)
    /\ (i + 3 > Len(n) \/ n[i + 3] \notin WORDCHARS)

_guess_type(name) ==
  LET n == Lower(name)
  IN  IF Contains(n, <<"d","r","y","e","r">>) \/ StandaloneDry(n) THEN TY_Dryer
      ELSE IF Contains(n, <<"w","a","s","h","e","r">>) \/ Contains(n, <<"w","a","s","h">>)
              \/ Contains(n, <<"l","a","u","n","d","r","y">>) THEN TY_Washer
      ELSE <<>>

----------------------------------------------------------------------------
(* Document contexts                                                       *)
(*                                                                         *)
(* A context (the page or a frame) is what the locators of the adapters    *)
(* read from it: rows, the tr elements in document order, each with        *)
(* whether it lies in a table tbody and the inner text of its th/td cells; *)
(* blocks, the inner text of the div/li/section/article elements; and      *)
(* grid, the rows of role='grid' markup, which no locator of the source    *)
(* reads.                                                                  *)
(***************************************************************************)

\* min(200, ...): the cap on rows and on tiles
ROW_CAP == 200

\* the largest number the model formats, the cap on rows and tiles
DecStr(n) ==
  LET d(k) == CHOOSE c \in DIGITS :
                c = <<"0","1","2","3","4","5","6","7","8","9">>[k + 1]
  IN  IF n < 10 THEN <<d(n)>>
      ELSE IF n < 100 THEN <<d(n \div 10), d(n % 10)>>
      ELSE <<d(n \div 100), d((n \div 10) % 10), d(n % 10)>>

\* f"Machine {i+1}", i counted from 0
MachineN(i) == <<"M","a","c","h","i","n","e"," ">> \o DecStr(i + 1)

\* " ".join(cells)
RECURSIVE JoinWith(_, _)
JoinWith(cells, sep) ==
  IF Len(cells) = 0 THEN <<>>
  ELSE IF Len(cells) = 1 THEN cells[1]
  ELSE cells[1] \o sep \o JoinWith(Tail(cells), sep)

----------------------------------------------------------------------------
(* _extract_table *)

HeaderLabels == {<<"n","o","d","e">>, <<"n","a","m","e">>, <<"m","a","c","h","i","n","e">>}
\* (available|in use|out of order|fault|error), re.I
StatusWords == <<<<"a","v","a","i","l","a","b","l","e">>, <<"i","n"," ","u","s","e">>, <<"o","u","t"," ","o","f"," ","o","r","d","e","r">>, <<"f","a","u","l","t">>, <<"e","r","r","o","r">>>>

HasDigit(c) == \E i \in 1..Len(c) : c[i] \in DIGITS
LooksLikeStatus(c) == AnyIn(StatusWords, Lower(c))
\* the second regex: a status word or \d+\s*(?:m|min|mins|minutes), re.I
LooksLikeStatusOrTime(c) ==
  LooksLikeStatus(c) \/ \E i \in 1..Len(c) : TimeMatches(Lower(c), i) # {}

\* the header test of line 115
IsHeaderRow(cells) ==
  /\ \E j \in 1..Len(cells) : Lower(cells[j]) \in HeaderLabels
  /\ ~ \E j \in 1..Len(cells) : HasDigit(cells[j])

\* the loop of lines 121-125, from cell k on, with name and status_text so far
RECURSIVE NameStatusLoop(_, _, _, _)
NameStatusLoop(cells, k, name, status_text) ==
  IF k > Len(cells) THEN [name |-> name, status_text |-> status_text]
  ELSE LET c == cells[k]
           name2 == IF name = <<>> /\ ~LooksLikeStatus(c) THEN c ELSE name
           st2 == IF status_text = <<>> /\ LooksLikeStatusOrTime(c)
                  THEN c ELSE status_text
       IN  NameStatusLoop(cells, k + 1, name2, st2)

\* what the body of the loop appends for row i (counted from 0): nothing or one item
TableRowItems(i, raw) ==
  LET cells == [j \in 1..Len(raw) |-> _normalise(raw[j])]
      ns == NameStatusLoop(cells, 1, <<>>, <<>>)
      name == IF ns.name # <<>> THEN ns.name
              ELSE IF Len(cells) > 0 THEN cells[1] ELSE MachineN(i)
      sd == _status_from_text(IF ns.status_text # <<>> THEN ns.status_text
                              ELSE JoinWith(cells, <<" ">>))
  IN  IF Len(raw) = 0 THEN <<>>
      ELSE IF IsHeaderRow(cells) THEN <<>>
      ELSE << [name |-> name, type |-> _guess_type(name),
               status |-> sd.st, detail |-> sd.detail] >>

IsTbodyRow(r) == r.tbody

\* ctx.locator("table tbody tr"), or cx.locator("tr") when that finds none
TableRows(cx) ==
  LET trs == SelectSeq(cx.rows, IsTbodyRow)
  IN  IF Len(trs) = 0 THEN cx.rows ELSE trs

RECURSIVE TableItemsFrom(_, _, _)
TableItemsFrom(trs, i, row_count) ==
  IF i >= row_count THEN <<>>
  ELSE TableRowItems(i, trs[i + 1].cells) \o TableItemsFrom(trs, i + 1, row_count)

_extract_table(cx) ==
  LET trs == TableRows(cx)
  IN  TableItemsFrom(trs, 0, Min(ROW_CAP, Len(trs)))

----------------------------------------------------------------------------
(* _extract_cards *)

\* has_text=re.compile(r"washer|dryer|available|in use|out of order|fault|error", re.I)
TileWords ==
  <<<<"w","a","s","h","e","r">>, <<"d","r","y","e","r">>, <<"a","v","a","i","l","a","b","l","e">>, <<"i","n"," ","u","s","e">>, <<"o","u","t"," ","o","f"," ","o","r","d","e","r">>, <<"f","a","u","l","t">>, <<"e","r","r","o","r">>>>
IsTile(text) == AnyIn(TileWords, Lower(text))

MachineWords == <<<<"w","a","s","h","e","r">>, <<"d","r","y","e","r">>>>
\* the characters [^\s,;:] excludes
NAME_STOP == WS \cup {",", ";", ":"}

\* the length of the longest run of characters outside cls starting at s[i]
RECURSIVE RunNot(_, _, _)
RunNot(s, i, cls) ==
  IF i <= Len(s) /\ s[i] \notin cls THEN 1 + RunNot(s, i + 1, cls) ELSE 0

\* the length of (?:washer|dryer) at position i, 0 when neither is there
MachineWordLen(t, i) ==
  IF StartsWithAt(t, i, MachineWords[1]) THEN Len(MachineWords[1])
  ELSE IF StartsWithAt(t, i, MachineWords[2]) THEN Len(MachineWords[2])
  ELSE 0

\* the length of the match of line 153's regex at position i of text, 0 when
\* there is none: (?:washer|dryer)\s*#?\s*\d+ first, else (?:washer|dryer)[^\s,;:]+
NameMatchLen(text, i) ==
  LET t == Lower(text)
      w == MachineWordLen(t, i)
      p1 == i + w + Run(t, i + w, WS)
      p2 == IF p1 <= Len(t) /\ t[p1] = "#" THEN p1 + 1 ELSE p1
      p3 == p2 + Run(t, p2, WS)
      nd == Run(t, p3, DIGITS)
      rest == RunNot(t, i + w, NAME_STOP)
  IN  IF w = 0 THEN 0
      ELSE IF nd > 0 THEN p3 + nd - i
      ELSE IF rest > 0 THEN w + rest
      ELSE 0

\* name_match.group(0), or <<>> when the search finds nothing
NameSearch(text) ==
  LET starts == {i \in 1..Len(text) : NameMatchLen(text, i) > 0}
  IN  IF starts = {} THEN <<>>
      ELSE LET i == CHOOSE x \in starts : \A y \in starts : x <= y
           IN  SubSeq(text, i, i + NameMatchLen(text, i) - 1)

\* what the body of the loop appends for tile i (counted from 0)
TileItems(i, raw) ==
  LET text == _normalise(raw)
      name == IF NameSearch(text) # <<>> THEN NameSearch(text) ELSE MachineN(i)
      sd == _status_from_text(text)
  IN  IF text = <<>> THEN <<>>
      ELSE << [name |-> name, type |-> _guess_type(name),
               status |-> sd.st, detail |-> sd.detail] >>

RECURSIVE TileItemsFrom(_, _, _)
TileItemsFrom(tiles, i, tcount) ==
  IF i >= tcount THEN <<>>
  ELSE TileItems(i, tiles[i + 1]) \o TileItemsFrom(tiles, i + 1, tcount)

_extract_cards(cx) ==
  LET tiles == SelectSeq(cx.blocks, IsTile)
  IN  TileItemsFrom(tiles, 0, Min(ROW_CAP, Len(tiles)))

----------------------------------------------------------------------------
(* Exceptions *)

NoExc == [cls |-> <<>>]

\* what page.goto (or launching the browser before it) raises when it fails
NavErrors ==
  { [cls |-> <<"T","i","m","e","o","u","t","E","r","r","o","r">>, msg |-> <<"T","i","m","e","o","u","t"," ","9","0","0","0","0","m","s"," ","e","x","c","e","e","d","e","d",".","\n","n","a","v","i","g","a","t","i","n","g"," ","t","o"," "," ","p","a","g","e">>],
    [cls |-> <<"E","r","r","o","r">>, msg |-> <<"n","e","t",":",":","E","R","R","_","N","A","M","E","_","N","O","T","_","R","E","S","O","L","V","E","D">>] }

\* line 182 passes two arguments after the expression to page.evaluate, which
\* takes one
EvaluateTypeError ==
  [cls |-> <<"T","y","p","e","E","r","r","o","r">>,
   msg |-> <<"P","a","g","e",".","e","v","a","l","u","a","t","e","(",")"," ","t","a","k","e","s"," ","f","r","o","m"," ","2"," ","t","o"," ","3"," ","p","o","s","i","t","i","o","n","a","l"," ","a","r","g","u","m","e","n","t","s"," ","b","u","t"," ","4"," ","w","e","r","e"," ","g","i","v","e","n">>]

\* the length of the long error text
LongLen == 230
LongMsg == [i \in 1..LongLen |-> IF i % 10 = 0 THEN "\n" ELSE "x"]

\* urllib.error.URLError(reason) and HTTPError(url, code, msg, hdrs, fp)
URLError(reason) == [cls |-> <<"U","R","L","E","r","r","o","r">>, reason |-> reason]
HTTPError(code, msg) == [cls |-> <<"H","T","T","P","E","r","r","o","r">>, code |-> code, msg |-> msg]

\* what urllib.request.urlopen raises when the request fails
SendErrors == { URLError(<<"t","i","m","e","d"," ","o","u","t">>), HTTPError(<<"5","0","0">>, LongMsg) }
\* what resp.read() raises when the reply breaks off
ReadErrors == { [cls |-> <<"T","i","m","e","o","u","t","E","r","r","o","r">>, msg |-> <<"T","h","e"," ","r","e","a","d"," ","o","p","e","r","a","t","i","o","n"," ","t","i","m","e","d"," ","o","u","t">>] }

\* the addresses repr() shows for the retry wrapper's Future
FutureAddrs == { <<"0","x","7","f","3","a","1","0">>, <<"0","x","7","f","3","a","5","8">> }

\* what the retry wrapper raises when it gives up: tenacity's RetryError
\* around the last attempt (reraise is not set)
RetryError(last, addr) == [cls |-> <<"R","e","t","r","y","E","r","r","o","r">>, last |-> last, addr |-> addr]

\* what print() raises when standard output is a pipe whose reader is gone:
\* BrokenPipeError(32, "Broken pipe")
PrintError == [cls |-> <<"B","r","o","k","e","n","P","i","p","e","E","r","r","o","r">>, msg |-> <<"[","E","r","r","n","o"," ","3","2","]"," ","B","r","o","k","e","n"," ","p","i","p","e">>]

\* str(e)
Str(e) ==
  IF e.cls = <<"R","e","t","r","y","E","r","r","o","r">>
  THEN <<"R","e","t","r","y","E","r","r","o","r","[","<","F","u","t","u","r","e"," ","a","t"," ">> \o e.addr \o <<" ","s","t","a","t","e","=","f","i","n","i","s","h","e","d"," ","r","a","i","s","e","d"," ">>
       \o e.last.cls \o <<">","]">>
  ELSE IF e.cls = <<"H","T","T","P","E","r","r","o","r">>
  THEN <<"H","T","T","P"," ","E","r","r","o","r"," ">> \o e.code \o <<":"," ">> \o e.msg
  ELSE IF e.cls = <<"U","R","L","E","r","r","o","r">>
  THEN <<"<","u","r","l","o","p","e","n"," ","e","r","r","o","r"," ">> \o e.reason \o <<">">>
  ELSE e.msg

----------------------------------------------------------------------------
(* _rows_for_sheet, _write_debug_csv *)

\* _now_iso() at the n-th reading of the clock
NowIso(n) == <<"T">> \o DecStr(n)

_rows_for_sheet(its, ts) ==
  [k \in 1..Len(its) |->
     <<ts, its[k].name, its[k].type, its[k].status, its[k].detail>>]

\* x.replace(",", " ")
ReplaceCommas(x) == [i \in 1..Len(x) |-> IF x[i] = "," THEN " " ELSE x[i]]

\* ",".join(x.replace(",", " ") for x in r) + "\n"
CsvLine(r) ==
  JoinWith([j \in 1..Len(r) |-> ReplaceCommas(r[j])], <<",">>) \o <<"\n">>

CSV_HEADER == <<"t","i","m","e","s","t","a","m","p",",","m","a","c","h","i","n","e","_","n","a","m","e",",","m","a","c","h","i","n","e","_","t","y","p","e",",","s","t","a","t","u","s",",","d","e","t","a","i","l","\n">>

\* The debug CSV is [exists, lines]. A line is [text, torn]: torn says that
\* the write broke off inside the line, so that the file holds a proper,
\* non-empty part of text and what is written next follows it directly.
Line(t) == [text |-> t, torn |-> FALSE]
Torn(t) == [text |-> t, torn |-> TRUE]
MissingFile == [exists |-> FALSE, lines |-> <<>>]
EmptyFile == [exists |-> TRUE, lines |-> <<>>]

\* lines 90-91: the file once the header check has completed
WithHeader(f) ==
  IF f.exists THEN f ELSE [exists |-> TRUE, lines |-> <<Line(CSV_HEADER)>>]

\* lines 92-94: the file after the first n rows were appended
WithRows(f, rows, n) ==
  [f EXCEPT !.lines = @ \o [k \in 1..n |-> Line(CsvLine(rows[k]))]]

\* lines 92-94 broken off: n rows were appended, and perhaps a part of the
\* next
BrokenAppends(f, rows) ==
  UNION { { WithRows(f, rows, n),
            [WithRows(f, rows, n) EXCEPT
               !.lines = @ \o <<Torn(CsvLine(rows[n + 1]))>>] } :
          n \in 0..(Len(rows) - 1) }

\* the file when the try block of lines 89-94 completes
CsvComplete(f, rows) == WithRows(WithHeader(f), rows, Len(rows))

\* The files the try block of lines 89-94 can leave when it raises: the
\* appends broke off; or, for a missing file, exists() or the creation of the
\* file raised, or write_text raised after it had created the file, with
\* nothing or a part of the header written.
CsvFailures(f, rows) ==
  IF f.exists THEN BrokenAppends(f, rows)
  ELSE {f, EmptyFile, [exists |-> TRUE, lines |-> <<Torn(CSV_HEADER)>>]}
       \cup BrokenAppends(WithHeader(f), rows)

----------------------------------------------------------------------------
(* scrape() and its helpers *)

S_NA == <<"N","/","A">>
S_NO_ROWS_FOUND == <<"N","O","_","R","O","W","S","_","F","O","U","N","D">>
S_SCRAPE_ERROR == <<"S","C","R","A","P","E","_","E","R","R","O","R">>

DEFAULT_TARGET == <<"h","t","t","p","s",":","/","/","w","a",".","s","q","i","n","s","i","g","h","t","s",".","c","o","m","/","1","8","2","4","7","1","?","r","o","o","m","=","2","7","7","8">>
\* a WordPress page that embeds the status page in an iframe
WP_TARGET == <<"h","t","t","p","s",":","/","/","l","a","u","n","d","r","l","a","b",".","e","x","a","m","p","l","e","/","p","o","t","t","s","/">>

\* stop_after_attempt(3)
MAX_ATTEMPTS == 3
\* str(e)[:200]
DETAIL_LIMIT == 200

EmptyDoc == [rows |-> <<>>, blocks |-> <<>>, grid |-> <<>>]
NoPage == [doc |-> EmptyDoc, iframes |-> <<>>]
NoCtx == [kind |-> "none", doc |-> EmptyDoc]

HeaderRow == [tbody |-> FALSE, cells |-> <<<<"M","a","c","h","i","n","e">>, <<"S","t","a","t","u","s">>>>]
DocTable ==
  [rows |-> <<HeaderRow,
              [tbody |-> TRUE, cells |-> <<<<"W","a","s","h","e","r"," ","1">>, <<"A","v","a","i","l","a","b","l","e">>>>],
              [tbody |-> TRUE, cells |-> <<<<"D","r","y","e","r"," ","2">>, <<"I","n"," ","u","s","e","\n","1","2"," ","m","i","n">>>>]>>,
   blocks |-> <<<<"W","a","s","h","e","r"," ","1"," ","A","v","a","i","l","a","b","l","e">>>>,
   grid |-> <<>>]
DocHeaderOnly ==
  [rows |-> <<HeaderRow>>, blocks |-> <<<<"L","a","u","n","d","r","y">>, <<"D","r","y","e","r"," ","#","2"," ","o","u","t"," ","o","f"," ","o","r","d","e","r">>>>,
   grid |-> <<>>]
DocCards ==
  [rows |-> <<>>, blocks |-> <<<<"w","a","s","h","e","r","A",":"," ","f","r","e","e">>, <<"O","p","e","n","i","n","g"," ","h","o","u","r","s">>>>, grid |-> <<>>]
DocGrid ==
  [rows |-> <<>>, blocks |-> <<<<"W","a","s","h","e","r"," ","1"," ","A","v","a","i","l","a","b","l","e">>>>,
   grid |-> << <<<<"W","a","s","h","e","r"," ","1">>, <<"A","v","a","i","l","a","b","l","e">>>> >>]
DocBlankRow ==
  [rows |-> <<[tbody |-> TRUE, cells |-> <<<<" ">>, <<>>>>]>>, blocks |-> <<>>,
   grid |-> <<>>]
DocChrome ==
  [rows |-> <<>>, blocks |-> <<<<"O","p","e","n","i","n","g"," ","h","o","u","r","s">>>>, grid |-> <<>>]

Docs == {EmptyDoc, DocTable, DocHeaderOnly, DocCards, DocGrid, DocBlankRow, DocChrome}

\* the most iframe elements of a page
MaxFrames == 1

\* An iframe element: whether it carries a data-lazy-src attribute, the
\* attribute's value, and the document of its content frame.
Iframes ==
  { [lazy |-> FALSE, lazy_src |-> <<>>, doc |-> d] : d \in {DocTable, EmptyDoc} }
  \cup { [lazy |-> TRUE, lazy_src |-> u, doc |-> d] :
           u \in {<<>>, DEFAULT_TARGET}, d \in {DocTable, EmptyDoc} }

\* the pages a navigation to url can load
PagesAt(url) ==
  IF url = DEFAULT_TARGET
  THEN { [doc |-> d, iframes |-> <<>>] : d \in Docs }
  ELSE { [doc |-> d, iframes |-> fs] :
           d \in {DocChrome, DocCards},
           fs \in UNION { [1..n -> Iframes] : n \in 0..MaxFrames } }

IsLazy(f) == f.lazy

\* the Optional[Frame] results: None, or the Frame with its document
NoneFrame == [found |-> FALSE, doc |-> EmptyDoc]
FrameOf(d) == [found |-> TRUE, doc |-> d]

\* _force_lazy_iframe(page): [raises, frame]
_force_lazy_iframe(pg) ==
  LET lazies == SelectSeq(pg.iframes, IsLazy)
  IN  IF Len(pg.iframes) = 0
      THEN [raises |-> NoExc, frame |-> NoneFrame]           \* PWTimeout, line 168
      ELSE IF Len(lazies) = 0
      THEN [raises |-> NoExc, frame |-> FrameOf(pg.iframes[1].doc)] \* line 175
      ELSE IF lazies[1].lazy_src = <<>>
      THEN [raises |-> NoExc, frame |-> NoneFrame]           \* line 180
      ELSE [raises |-> EvaluateTypeError, frame |-> NoneFrame] \* line 182

\* _context_for_url(page, url): [raises, ctx]
_context_for_url(pg, url) ==
  IF Contains(url, <<"w","a",".","s","q","i","n","s","i","g","h","t","s",".","c","o","m">>)
  THEN [raises |-> NoExc, ctx |-> [kind |-> "page", doc |-> pg.doc]]
  ELSE LET fr == _force_lazy_iframe(pg)
       IN  IF fr.raises # NoExc THEN [raises |-> fr.raises, ctx |-> NoCtx]
           ELSE IF ~fr.frame.found
           THEN [raises |-> NoExc, ctx |-> [kind |-> "page", doc |-> pg.doc]]
           ELSE [raises |-> NoExc, ctx |-> [kind |-> "frame", doc |-> fr.frame.doc]]

Heartbeat ==
  [name |-> S_NA, type |-> <<>>, status |-> S_NO_ROWS_FOUND, detail |-> <<>>]

\* a faulty variant: an empty result is returned as it is
ItemsWithoutHeartbeat(its) == its

\* lines 230-232: what scrape() returns for the items the adapters gave
ReturnedItems(its) == IF its = <<>> THEN <<Heartbeat>> ELSE its

Take(s, n) == SubSeq(s, 1, Min(n, Len(s)))

\* a faulty variant: the failure is recorded with the status of an empty run
FailItemsAsNoRows(e) ==
  << [name |-> S_NA, type |-> <<>>, status |-> S_NO_ROWS_FOUND,
      detail |-> Take(_normalise(Str(e)), DETAIL_LIMIT)] >>

\* lines 243-248: the items of the failure observation for exception e
FailItems(e) ==
  << [name |-> S_NA, type |-> <<>>, status |-> S_SCRAPE_ERROR,
      detail |-> Take(_normalise(Str(e)), DETAIL_LIMIT)] >>

----------------------------------------------------------------------------
(* Initial states *)

\* no text has been classified
ClassifyInit ==
  /\ cText = <<>>
  /\ cFrags = 0
  /\ cDone = FALSE
  /\ cStatus = <<>>
  /\ cDetail = <<>>

\* the value of a result before the adapter ran
NotRun == "not run"

\* an empty document, no adapter has run
AdaptersInit ==
  /\ aDoc = [rows |-> <<>>, blocks |-> <<>>, grid |-> <<>>]
  /\ aTable = NotRun
  /\ aCards = NotRun

\* main() is about to call scrape(): the environment has set the
\* configuration, the debug CSV is as earlier runs left it, nothing was posted
MainInitWith(url, url_set, csv) ==
  /\ target_url = url
  /\ sheet_url_set = url_set
  /\ pc = "navigate"
  /\ attempt = 1
  /\ waits = 0
  /\ page = NoPage
  /\ ctx = NoCtx
  /\ raised_in = "none"
  /\ last_error = NoExc
  /\ calls = <<>>
  /\ table_out = NotRun
  /\ cards_out = NotRun
  /\ items = <<>>
  /\ scrape_result = "pending"
  /\ caught = NoExc
  /\ clock = 0
  /\ posts = <<>>
  /\ post_returns = <<>>
  /\ sheet = <<>>
  /\ csv_calls = <<>>
  /\ csv_file = csv
  /\ exit_error = NoExc

MainInit ==
  \E url \in {DEFAULT_TARGET, WP_TARGET}, url_set \in BOOLEAN,
     csv \in {MissingFile, WithHeader(MissingFile), EmptyFile} :
    MainInitWith(url, url_set, csv)

\* the default configuration, for the specifications of the pure functions
MainIdle == MainInitWith(DEFAULT_TARGET, TRUE, MissingFile)

----------------------------------------------------------------------------
(* SpecClassify: _status_from_text applied to bounded texts *)

\* the most fragments a text is built from
MaxFrags == 2

Fragments ==
  { <<"o","u","t"," ","o","f"," ","o","r","d","e","r">>, <<"F","a","u","l","t">>, <<"e","r","r","o","r">>, <<"D","O","W","N">>, <<"a","v","a","i","l","a","b","l","e">>, <<"V","a","c","a","n","t">>,
    <<"f","r","e","e">>, <<"I","n"," ","U","s","e">>, <<"r","u","n","n","i","n","g">>, <<"b","u","s","y">>, <<"O","C","C","U","P","I","E","D">>, <<"7"," ","m","i","n">>, <<"1","2"," ","m","i","n","s">>,
    <<"3"," ","m","i","n","u","t","e","s">>, <<"5","m">>, <<" ">>, <<"\f">>, <<"i","n","\\xa0","u","s","e">>, <<"u","s","e">>, <<"A","v","a","i","l","a","b","l","e"," ","1","2"," ","M","I","N","S">>, <<"W","a","s","h","e","r"," ","3">> }

\* the caller builds the text
AddFragment ==
  /\ ~cDone
  /\ cFrags < MaxFrags
  /\ \E f \in Fragments : cText' = cText \o f
  /\ cFrags' = cFrags + 1
  /\ UNCHANGED <<cDone, cStatus, cDetail>>

\* st, detail = _status_from_text(text)
Classify ==
  /\ ~cDone
  /\ LET r == _status_from_text(cText)
     IN  /\ cStatus' = r.st
         /\ cDetail' = r.detail
  /\ cDone' = TRUE
  /\ UNCHANGED <<cText, cFrags>>

ClassifyNext ==
  \/ AddFragment /\ UNCHANGED <<avars, mvars>>
  \/ Classify /\ UNCHANGED <<avars, mvars>>

InitClassify == ClassifyInit /\ AdaptersInit /\ MainIdle

SpecClassify == InitClassify /\ [][ClassifyNext]_vars

\* the keyword sets and example phrases as the specification names them
C7_OutOfOrderWords == {<<"o","u","t"," ","o","f"," ","o","r","d","e","r">>, <<"f","a","u","l","t">>, <<"e","r","r","o","r">>, <<"d","o","w","n">>}
C7_AvailableWords == {<<"a","v","a","i","l","a","b","l","e">>, <<"v","a","c","a","n","t">>, <<"f","r","e","e">>}
C7_InUseWords == {<<"i","n"," ","u","s","e">>, <<"r","u","n","n","i","n","g">>, <<"b","u","s","y">>, <<"o","c","c","u","p","i","e","d">>}
C7_TimePhrases == {<<"7"," ","m","i","n">>, <<"1","2"," ","m","i","n","s">>, <<"3"," ","m","i","n","u","t","e","s">>}
C7_Occurs(words, t) == \E k \in words : Contains(t, k)

\* C7: the status classifier returns Out of Order whenever an out-of-order
\* keyword occurs in the lower-cased text, whatever else occurs; otherwise
\* Available if an available keyword occurs; otherwise In Use if an in-use
\* keyword occurs; otherwise Unknown. Adding a time phrase to the text does
\* not change the status.
C7_StatusPriority ==
  cDone =>
    LET t == Lower(cText)
        ooo == C7_Occurs(C7_OutOfOrderWords, t)
        av == C7_Occurs(C7_AvailableWords, t)
        iu == C7_Occurs(C7_InUseWords, t)
    IN  /\ ooo => cStatus = ST_OutOfOrder
        /\ (~ooo /\ av) => cStatus = ST_Available
        /\ (~ooo /\ ~av /\ iu) => cStatus = ST_InUse
        /\ (~ooo /\ ~av /\ ~iu) => cStatus = ST_Unknown
        /\ \A p \in C7_TimePhrases :
             _status_from_text(cText \o <<" ">> \o p).st = cStatus

\* an out-of-order keyword, an available keyword and a time phrase occur
\* together and the text was classified Out of Order
C7_Witness ==
  /\ cDone
  /\ C7_Occurs(C7_OutOfOrderWords, Lower(cText))
  /\ C7_Occurs(C7_AvailableWords, Lower(cText))
  /\ C7_Occurs(C7_TimePhrases, Lower(cText))
  /\ cStatus = ST_OutOfOrder

\* the longest time unit of the specification that text t carries at position j
C8_UnitLen(t, j) ==
  LET fits == {n \in 1..Len(TimeUnits) : StartsWithAt(Lower(t), j, TimeUnits[n])}
  IN  IF fits = {} THEN 0
      ELSE Len(TimeUnits[CHOOSE n \in fits : \A o \in fits :
                           Len(TimeUnits[n]) >= Len(TimeUnits[o])])

\* digits, an optional space and the complete unit word, starting at t[i]
C8_PhraseAt(t, i) ==
  LET nd == Run(t, i, DIGITS)
      sp == IF i + nd <= Len(t) /\ t[i + nd] = " " THEN 1 ELSE 0
      ul == IF C8_UnitLen(t, i + nd) > 0 THEN C8_UnitLen(t, i + nd)
            ELSE C8_UnitLen(t, i + nd + sp)
      gap == IF C8_UnitLen(t, i + nd) > 0 THEN 0 ELSE sp
  IN  IF nd > 0 /\ ul > 0 THEN SubSeq(t, i, i + nd + gap + ul - 1) ELSE <<>>

C8_Phrase(t) ==
  LET starts == {i \in 1..Len(t) : C8_PhraseAt(t, i) # <<>>}
  IN  IF starts = {} THEN <<>>
      ELSE C8_PhraseAt(t, CHOOSE x \in starts : \A y \in starts : x <= y)

\* C8: for a text that contains a time phrase (digits, optional space, time
\* unit) the detail is that exact substring with the complete unit word; for
\* a text without one the detail is empty.
C8_DetailIsWholePhrase == cDone => cDetail = C8_Phrase(cText)

----------------------------------------------------------------------------
(* SpecAdapters: the two row adapters applied to bounded documents *)

\* the most tr elements, cells of a row and block elements of a document
MaxRows == 2
MaxCells == 2
MaxBlocks == 1

CellTexts == { <<"\f","\\xa0","\n">>, <<"W","a","s","h","e","r","\\xa0","1">>, <<"I","n"," ","U","s","e"," ","1","2"," ","m","i","n">>, <<"M","a","c","h","i","n","e">> }
BlockTexts == { <<>>, <<"D","r","y","e","r","\\x0b","#","2"," "," ","i","n"," ","u","s","e","\n","7"," ","m","i","n">>, <<"w","a","s","h","e","r","A",":"," ","f","r","e","e">>, <<"o","u","t"," ","o","f"," ","o","r","d","e","r">> }
RowShapes ==
  UNION { [1..n -> CellTexts] : n \in 1..MaxCells }

\* the page gains a tr element
AddRow ==
  /\ aTable = NotRun /\ aCards = NotRun
  /\ Len(aDoc.rows) < MaxRows
  /\ \E cells \in RowShapes, tb \in BOOLEAN :
       aDoc' = [aDoc EXCEPT !.rows = Append(@, [tbody |-> tb, cells |-> cells])]
  /\ UNCHANGED <<aTable, aCards>>

\* the page gains a div/li/section/article element
AddBlock ==
  /\ aTable = NotRun /\ aCards = NotRun
  /\ Len(aDoc.blocks) < MaxBlocks
  /\ \E b \in BlockTexts : aDoc' = [aDoc EXCEPT !.blocks = Append(@, b)]
  /\ UNCHANGED <<aTable, aCards>>

RunExtractTable ==
  /\ aTable = NotRun
  /\ aTable' = _extract_table(aDoc)
  /\ UNCHANGED <<aDoc, aCards>>

RunExtractCards ==
  /\ aCards = NotRun
  /\ aCards' = _extract_cards(aDoc)
  /\ UNCHANGED <<aDoc, aTable>>

AdaptersNext ==
  \/ AddRow /\ UNCHANGED <<cvars, mvars>>
  \/ AddBlock /\ UNCHANGED <<cvars, mvars>>
  \/ RunExtractTable /\ UNCHANGED <<cvars, mvars>>
  \/ RunExtractCards /\ UNCHANGED <<cvars, mvars>>

InitAdapters == AdaptersInit /\ ClassifyInit /\ MainIdle

SpecAdapters == InitAdapters /\ [][AdaptersNext]_vars

\* the records an adapter has emitted
C6_Emitted ==
  (IF aTable = NotRun THEN {} ELSE {aTable[k] : k \in 1..Len(aTable)})
  \cup (IF aCards = NotRun THEN {} ELSE {aCards[k] : k \in 1..Len(aCards)})

\* whether every cell of a row is empty after normalisation
C6_IsBlankRow(r) == \A j \in 1..Len(r.cells) : _normalise(r.cells[j]) = <<>>

\* C6: every record the table adapter or the card adapter emits has a
\* non-empty name, and a row all of whose cells are empty after normalisation
\* is dropped, not emitted as a blank record.
C6_NoBlankRecord ==
  /\ \A it \in C6_Emitted : it.name # <<>>
  /\ aTable # NotRun =>
       LET trs == TableRows(aDoc)
       IN  Len(aTable) <= Cardinality({n \in 1..Len(trs) : ~C6_IsBlankRow(trs[n])})

----------------------------------------------------------------------------
(* Spec: one invocation of main() *)

\* lines 210-214: the attempt launches the browser, prints the target and
\* navigates; each may raise, and a raise leaves scrape() into the retry
\* wrapper
Navigate ==
  /\ pc = "navigate"
  /\ \/ /\ \E pg \in PagesAt(target_url) : page' = pg
        /\ pc' = "resolve"
        /\ UNCHANGED <<raised_in, last_error>>
     \/ /\ \E e \in NavErrors : last_error' = e
        /\ raised_in' = "goto"
        /\ pc' = "attempt_failed"
        /\ UNCHANGED page
     \/ /\ last_error' = PrintError                          \* line 213
        /\ raised_in' = "print"
        /\ pc' = "attempt_failed"
        /\ UNCHANGED page
  /\ UNCHANGED <<config, ctx, calls, table_out, cards_out, attempt, waits, items,
                 scrape_result, caught, sink_vars, csv_vars, exit_error>>

\* line 216: ctx = _context_for_url(page, TARGET_URL). r is what the call
\* computes; on the path through _force_lazy_iframe the print of line 204
\* stands before the return and may raise too.
ResolveContext ==
  /\ pc = "resolve"
  /\ LET r == _context_for_url(page, target_url)
     IN  \/ /\ r.raises = NoExc
            /\ ctx' = r.ctx
            /\ pc' = "extract_table"
            /\ UNCHANGED <<raised_in, last_error>>
         \/ /\ \/ r.raises # NoExc /\ last_error' = r.raises
               \/ /\ r.raises = NoExc
                  /\ ~Contains(target_url, <<"w","a",".","s","q","i","n","s","i","g","h","t","s",".","c","o","m">>)
                  /\ last_error' = PrintError                \* line 204
            /\ raised_in' = "_context_for_url"
            /\ pc' = "attempt_failed"
            /\ UNCHANGED ctx
  /\ UNCHANGED <<config, page, calls, table_out, cards_out, attempt, waits, items,
                 scrape_result, caught, sink_vars, csv_vars, exit_error>>

\* lines 219-225: items = _extract_table(ctx)
ExtractTable ==
  /\ pc = "extract_table"
  /\ table_out' = _extract_table(ctx.doc)
  /\ items' = table_out'
  /\ calls' = Append(calls, "Table")
  /\ pc' = IF items' = <<>> THEN "extract_cards" ELSE "return"
  /\ UNCHANGED <<config, page, ctx, raised_in, cards_out, retry_vars,
                 scrape_result, caught, sink_vars, csv_vars, exit_error>>

\* line 226: items = _extract_cards(ctx), reached when items is empty
ExtractCards ==
  /\ pc = "extract_cards"
  /\ cards_out' = _extract_cards(ctx.doc)
  /\ items' = cards_out'
  /\ calls' = Append(calls, "Card")
  /\ pc' = "return"
  /\ UNCHANGED <<config, page, ctx, raised_in, table_out, retry_vars,
                 scrape_result, caught, sink_vars, csv_vars, exit_error>>

\* lines 228-232: the browser is closed and scrape() returns; the retry
\* wrapper hands the result to main()
ReturnItems ==
  /\ pc = "return"
  /\ items' = ReturnedItems(items)
  /\ scrape_result' = "returned"
  /\ pc' = "post_rows"
  /\ UNCHANGED <<config, attempt_vars, retry_vars, caught, sink_vars, csv_vars,
                 exit_error>>

\* line 208: the attempt raised and fewer than 3 attempts were made: the
\* wrapper waits the fixed delay and calls scrape() again
Retry ==
  /\ pc = "attempt_failed"
  /\ attempt < MAX_ATTEMPTS
  /\ attempt' = attempt + 1
  /\ waits' = waits + 1
  /\ pc' = "navigate"
  /\ page' = NoPage
  /\ ctx' = NoCtx
  /\ raised_in' = "none"
  /\ calls' = <<>>
  /\ table_out' = NotRun
  /\ cards_out' = NotRun
  /\ UNCHANGED <<config, last_error, items, scrape_result, caught, sink_vars,
                 csv_vars, exit_error>>

\* line 208: the third attempt raised: the wrapper raises RetryError, which
\* main() catches at line 242
GiveUp ==
  /\ pc = "attempt_failed"
  /\ attempt >= MAX_ATTEMPTS
  /\ scrape_result' = "raised"
  /\ \E a \in FutureAddrs : caught' = RetryError(last_error, a)
  /\ pc' = "post_fail"
  /\ UNCHANGED <<config, attempt_vars, retry_vars, items, sink_vars, csv_vars,
                 exit_error>>

\* _post_to_sheet(batch): with no SHEET_WEBAPP_URL it prints a notice and
\* returns; else the request is sent, the reply read and printed, and each
\* may raise. err is the exception it raises, NoExc when it returns.
PostToSheet(batch, err) ==
  /\ posts' = Append(posts, batch)
  /\ post_returns' = Append(post_returns, err = NoExc)
  /\ IF ~sheet_url_set
     THEN err \in {NoExc, PrintError} /\ sheet' = sheet      \* line 76
     ELSE \/ err = NoExc /\ sheet' = Append(sheet, batch)
          \/ err \in SendErrors /\ sheet' = sheet            \* line 84
          \/ /\ err \in ReadErrors \cup {PrintError}          \* line 85
             /\ sheet' = Append(sheet, batch)

PostErrors == {NoExc, PrintError} \cup SendErrors \cup ReadErrors

\* _write_debug_csv(batch): an exception of the try block is caught and
\* printed, and the function returns unless that print of line 96 raises.
\* err is the exception it raises, NoExc when it returns.
WriteDebugCsv(batch, err) ==
  /\ csv_calls' = Append(csv_calls, batch)
  /\ \/ err = NoExc /\ csv_file' = CsvComplete(csv_file, batch)
     \/ /\ err \in {NoExc, PrintError}
        /\ csv_file' \in CsvFailures(csv_file, batch)

\* lines 238-239: rows = _rows_for_sheet(items); _post_to_sheet(rows)
PostRows ==
  /\ pc = "post_rows"
  /\ clock' = clock + 1
  /\ \E err \in PostErrors :
       /\ PostToSheet(_rows_for_sheet(items, NowIso(clock')), err)
       /\ caught' = err
       /\ pc' = IF err = NoExc THEN "write_csv" ELSE "post_fail"
  /\ UNCHANGED <<config, attempt_vars, retry_vars, items, scrape_result,
                 csv_vars, exit_error>>

\* lines 240-241: _write_debug_csv(rows) and the closing print; when neither
\* raises main() returns, else the except clause of line 242 catches the
\* exception
WriteCsv ==
  /\ pc = "write_csv"
  /\ \E err \in {NoExc, PrintError} :
       /\ WriteDebugCsv(posts[Len(posts)], err)
       /\ \/ err = NoExc /\ caught' = caught /\ pc' = "done"
          \/ /\ caught' = PrintError          \* line 96, or line 241
             /\ pc' = "post_fail"
  /\ UNCHANGED <<config, attempt_vars, retry_vars, items, scrape_result,
                 sink_vars, exit_error>>

\* lines 243-250 and 252-253: the failure row is built and posted; when
\* the post raises, the bare raise of the finally clause re-raises the
\* exception then being handled, which is the post's
PostFail ==
  /\ pc = "post_fail"
  /\ clock' = clock + 1
  /\ \E err \in PostErrors :
       /\ PostToSheet(_rows_for_sheet(FailItems(caught), NowIso(clock')), err)
       /\ IF err = NoExc
          THEN pc' = "write_fail_csv" /\ exit_error' = exit_error
          ELSE pc' = "done" /\ exit_error' = err
  /\ UNCHANGED <<config, attempt_vars, retry_vars, items, scrape_result, caught,
                 csv_vars>>

\* lines 251-253: _write_debug_csv(fail_rows), then the bare raise re-raises
\* the exception then being handled: e, or the one _write_debug_csv raised
WriteFailCsv ==
  /\ pc = "write_fail_csv"
  /\ \E err \in {NoExc, PrintError} :
       /\ WriteDebugCsv(posts[Len(posts)], err)
       /\ exit_error' = IF err = NoExc THEN caught ELSE err
  /\ pc' = "done"
  /\ UNCHANGED <<config, attempt_vars, retry_vars, items, scrape_result, caught,
                 sink_vars>>

Next ==
  \/ Navigate /\ UNCHANGED <<cvars, avars>>
  \/ ResolveContext /\ UNCHANGED <<cvars, avars>>
  \/ ExtractTable /\ UNCHANGED <<cvars, avars>>
  \/ ExtractCards /\ UNCHANGED <<cvars, avars>>
  \/ ReturnItems /\ UNCHANGED <<cvars, avars>>
  \/ Retry /\ UNCHANGED <<cvars, avars>>
  \/ GiveUp /\ UNCHANGED <<cvars, avars>>
  \/ PostRows /\ UNCHANGED <<cvars, avars>>
  \/ WriteCsv /\ UNCHANGED <<cvars, avars>>
  \/ PostFail /\ UNCHANGED <<cvars, avars>>
  \/ WriteFailCsv /\ UNCHANGED <<cvars, avars>>

Init == MainInit /\ ClassifyInit /\ AdaptersInit

Spec == Init /\ [][Next]_vars

----------------------------------------------------------------------------
(* The claims about one invocation of main() *)

\* C1: the retry wrapper runs the extraction at most 3 times, waits before
\* every further attempt, stops at the first attempt that returns, and when
\* all 3 attempts have raised it propagates the final attempt's error itself
\* to the caller.
C1_FinalErrorPropagated ==
  /\ attempt \in 1..3
  /\ waits = attempt - 1
  /\ scrape_result = "returned" => pc \notin {"navigate", "attempt_failed"}
  /\ scrape_result = "raised" => (attempt = 3 /\ caught = last_error)

\* the heartbeat record as the specification gives it
C2_Heartbeat ==
  [name |-> <<"N","/","A">>, type |-> <<>>, status |-> <<"N","O","_","R","O","W","S","_","F","O","U","N","D">>, detail |-> <<>>]

\* C2: when scrape() has returned, the list it returned is not empty; if
\* every adapter that ran yielded no rows, the list is exactly the heartbeat
\* record; and a heartbeat record never stands beside machine records.
C2_HeartbeatWhenEmpty ==
  scrape_result = "returned" =>
    /\ items # <<>>
    /\ (table_out = <<>> /\ cards_out = <<>>) => items = <<C2_Heartbeat>>
    /\ (\E k \in 1..Len(items) : items[k] = C2_Heartbeat) => Len(items) = 1

\* scrape() returned the heartbeat for a context that has a table row (a
\* header) and matching blocks none of which gave an item
C2_Witness ==
  /\ scrape_result = "returned"
  /\ calls = <<"Table", "Card">>
  /\ table_out = <<>> /\ cards_out = <<>>
  /\ items = <<C2_Heartbeat>>

\* the adapter order of the specification
C3_Order == <<"Table", "ARIA-Grid", "Card">>

\* C3: within one run the adapters are tried in the order Table, ARIA-Grid,
\* Card, each only if every earlier one returned nothing, and the result is
\* the output of exactly one adapter.
C3_FixedOrderOneAdapter ==
  /\ Len(calls) <= Len(C3_Order)
  /\ \A k \in 1..Len(calls) : calls[k] = C3_Order[k]
  /\ Len(calls) >= 2 => table_out = <<>>
  /\ pc = "return" => (items = table_out \/ items = cards_out)

\* C4: when scrape() has failed after all retries, main() hands exactly one
\* batch to the sink, of exactly one row, with name N/A, status SCRAPE_ERROR
\* and as detail the whitespace-normalised error text cut to 200 characters;
\* no machine rows are handed over in that run.
C4_OneFailureObservation ==
  scrape_result = "raised" =>
    /\ pc = "post_fail" => posts = <<>>
    /\ pc # "post_fail" =>
         /\ Len(posts) = 1
         /\ Len(posts[1]) = 1
         /\ posts[1][1][2] = <<"N","/","A">>
         /\ posts[1][1][3] = <<>>
         /\ posts[1][1][4] = <<"S","C","R","A","P","E","_","E","R","R","O","R">>
         /\ posts[1][1][5] = Take(_normalise(Str(caught)), 200)
         /\ Len(posts[1][1][5]) <= 200
         /\ (sheet_url_set /\ post_returns[1]) => sheet = posts

\* all retries failed and the failure row reached the sheet
C4_Witness ==
  /\ scrape_result = "raised"
  /\ pc = "done"
  /\ Len(posts) = 1
  /\ sheet = posts
  /\ posts[1][1][4] = <<"S","C","R","A","P","E","_","E","R","R","O","R">>

\* C5: the local log receives the same rows as the sink whether or not the
\* delivery to the sink succeeds: every batch handed to _post_to_sheet has
\* been handed to _write_debug_csv when main() ends.
C5_LogIndependentOfSink == pc = "done" => csv_calls = posts

\* C9: context resolution raises on no ordinary arrangement of frames, and
\* when exactly one lazily attached frame with a deferred source exists, that
\* frame is the context.
C9_ResolutionNeverRaises ==
  /\ raised_in # "_context_for_url"
  /\ (/\ pc \in {"extract_table", "extract_cards", "return"}
      /\ ~Contains(target_url, <<"w","a",".","s","q","i","n","s","i","g","h","t","s",".","c","o","m">>)
      /\ Len(page.iframes) = 1
      /\ page.iframes[1].lazy
      /\ page.iframes[1].lazy_src # <<>>)
       => ctx = [kind |-> "frame", doc |-> page.iframes[1].doc]

\* C10: once _post_to_sheet(rows) has returned normally nothing more is
\* handed to the sink in that run, and whenever the failure path was entered
\* main() ends with the exception that entered it.
C10_OriginalReraised ==
  /\ (scrape_result = "returned" /\ Len(posts) >= 1 /\ post_returns[1])
       => Len(posts) = 1
  /\ (pc = "done" /\ caught # NoExc) => exit_error = caught

====
